---- MODULE Spec2Model ----
(***************************************************************************)
(* A model of discordavatarproxy (src/main.rs): the per-request pipeline   *)
(* wrap_error -> resp -> respond_with_image / respond_with_json ->          *)
(* get_discord_data_for -> get_user_data / get_avatar_url.                  *)
(*                                                                         *)
(* Strings are sequences of fragments.  Text that the code parses (the     *)
(* request path, the user id, the discriminator, the hashes) is split into *)
(* one-character fragments; a string literal of the source that is only    *)
(* ever written out is one fragment.  Concatenation (format!) is \o.       *)
(*                                                                         *)
(* Every handler is an async fn; it runs from one await on an outbound     *)
(* call to the next without interruption.  A task's pc names the await it  *)
(* is suspended at.                                                        *)
(***************************************************************************)
EXTENDS Integers, Sequences, FiniteSets, TLC

VARIABLES ctx, task

vars == <<ctx, task>>

----------------------------------------------------------------------------
(* Option<T> and Result<T, E> *)

None == <<>>
Some(x) == <<x>>
IsSome(o) == Len(o) = 1
Unwrap(o) == o[1]

Ok(v) == [ok |-> TRUE, val |-> v]
Err(e) == [ok |-> FALSE, val |-> e]

----------------------------------------------------------------------------
(* str helpers of the standard library *)

DigitChars == <<"0", "1", "2", "3", "4", "5", "6", "7", "8", "9">>

IsDigit(c) == \E i \in 1..10 : DigitChars[i] = c

DigitVal(c) == (CHOOSE i \in 1..10 : DigitChars[i] = c) - 1

\* strip_prefix gone wrong: the prefix is looked for anywhere in the string
strip_prefix_find(s, prefix) ==
    LET at == {k \in 1..Len(s) : /\ k + Len(prefix) - 1 <= Len(s)
                                 /\ SubSeq(s, k, k + Len(prefix) - 1) = prefix}
    IN  IF at = {} THEN None
        ELSE LET k == CHOOSE k \in at : \A j \in at : k <= j
             IN  Some(SubSeq(s, k + Len(prefix), Len(s)))

\* str::strip_prefix
strip_prefix(s, prefix) ==
    IF Len(s) >= Len(prefix) /\ SubSeq(s, 1, Len(prefix)) = prefix
    THEN Some(SubSeq(s, Len(prefix) + 1, Len(s)))
    ELSE None

\* strip_suffix gone wrong: everything from the first "." on is cut off
strip_suffix_at_dot(s, suffix) ==
    IF Len(s) >= Len(suffix) /\ SubSeq(s, Len(s) - Len(suffix) + 1, Len(s)) = suffix
    THEN LET k == CHOOSE k \in 1..Len(s) : s[k] = "." /\ \A j \in 1..(k - 1) : s[j] # "."
         IN  Some(SubSeq(s, 1, k - 1))
    ELSE None

\* str::strip_suffix
strip_suffix(s, suffix) ==
    IF Len(s) >= Len(suffix) /\ SubSeq(s, Len(s) - Len(suffix) + 1, Len(s)) = suffix
    THEN Some(SubSeq(s, 1, Len(s) - Len(suffix)))
    ELSE None

\* Display of an unsigned integer: its decimal digits, no sign, no padding.
RECURSIVE Display(_)
Display(n) ==
    IF n < 10 THEN <<DigitChars[n + 1]>>
    ELSE Display(n \div 10) \o <<DigitChars[(n % 10) + 1]>>

\* The digits of an unsigned literal once the optional leading "+" is gone.
\* core::num::from_str_radix for an unsigned type: the empty string is an
\* error, a lone "+" or "-" is an error, a leading "+" is skipped, a leading
\* "-" is not (it is then an invalid digit).
UnsignedDigits(s) ==
    IF Len(s) = 0 THEN Err(<<"cannot parse integer from empty string">>)
    ELSE IF Len(s) = 1 /\ s[1] \in {"+", "-"} THEN Err(<<"invalid digit found in string">>)
    ELSE LET digits == IF s[1] = "+" THEN Tail(s) ELSE s
         IN  IF \A i \in 1..Len(digits) : IsDigit(digits[i])
             THEN Ok(digits)
             ELSE Err(<<"invalid digit found in string">>)

\* str::parse::<u16>: the value is accumulated digit by digit with checked
\* multiplication and addition, so it never exceeds 65535 before the comparison with the limit.
RECURSIVE AccumulateU16(_, _)
AccumulateU16(digits, acc) ==
    IF Len(digits) = 0 THEN Ok(acc)
    ELSE LET next == acc * 10 + DigitVal(Head(digits))
         IN  IF next > 65535
             THEN Err(<<"number too large to fit in target type">>)
             ELSE AccumulateU16(Tail(digits), next)

parse_u16(s) ==
    LET d == UnsignedDigits(s)
    IN  IF d.ok THEN AccumulateU16(d.val, 0) ELSE d

\* A u64 is held as its canonical decimal digits (no leading zeros): parse
\* drops the sign and the leading zeros, Display writes the digits back.
RECURSIVE StripZeros(_)
StripZeros(digits) ==
    IF Len(digits) > 1 /\ Head(digits) = "0" THEN StripZeros(Tail(digits)) ELSE digits

U64MaxDigits ==
    <<"1", "8", "4", "4", "6", "7", "4", "4", "0", "7",
      "3", "7", "0", "9", "5", "5", "1", "6", "1", "5">>

\* a <= b for canonical digit strings of the same length
RECURSIVE DigitsLeq(_, _)
DigitsLeq(a, b) ==
    IF Len(a) = 0 THEN TRUE
    ELSE IF DigitVal(Head(a)) < DigitVal(Head(b)) THEN TRUE
    ELSE IF DigitVal(Head(a)) > DigitVal(Head(b)) THEN FALSE
    ELSE DigitsLeq(Tail(a), Tail(b))

FitsU64(canon) ==
    \/ Len(canon) < Len(U64MaxDigits)
    \/ Len(canon) = Len(U64MaxDigits) /\ DigitsLeq(canon, U64MaxDigits)

\* parse::<u64> gone wrong: a sign is accepted and dropped
parse_u64_signed(s) ==
    LET d == UnsignedDigits(IF Len(s) > 1 /\ s[1] = "-" THEN Tail(s) ELSE s)
    IN  IF ~d.ok THEN d
        ELSE IF FitsU64(StripZeros(d.val)) THEN Ok(StripZeros(d.val))
        ELSE Err(<<"number too large to fit in target type">>)

\* str::parse::<u64>
parse_u64(s) ==
    LET d == UnsignedDigits(s)
    IN  IF ~d.ok THEN d
        ELSE IF FitsU64(StripZeros(d.val)) THEN Ok(StripZeros(d.val))
        ELSE Err(<<"number too large to fit in target type">>)

\* Display of a u64 held as canonical digits
DisplayU64(canon) == canon

\* http::Uri's FromStr as far as the avatar URL can exercise it: the URL has
\* a fixed scheme and host, so it parses unless a character the id or the
\* hash brought in is not a URI character.
InvalidUriChars == {" ", "<", ">", "{", "}", "|", "^"}

parse_uri(s) ==
    IF \E i \in 1..Len(s) : s[i] \in InvalidUriChars
    THEN Err(<<"invalid uri character">>)
    ELSE Ok(s)

----------------------------------------------------------------------------
(* hyper: bodies, requests, responses *)

\* A body is tagged by what reading it yields.  "text" is a body built from
\* a String of this program; the other kinds arrive from upstream:
\* "truncated" (the stream fails before its end), "bytes" (bytes that are
\* not UTF-8 text, such as an image), "object" (the text of a JSON object,
\* held as its fields).
Body(kind, payload) == [kind |-> kind, payload |-> payload]

BodyEmpty == Body("empty", <<>>)
BodyFrom(string) == Body("text", string)

Response(status, headers, body) == [status |-> status, headers |-> headers, body |-> body]

\* What an outbound call comes back with: the transport failed, or an HTTP
\* response of any status arrived.
TransportError(text) == [arrived |-> FALSE, status |-> 0, body |-> BodyEmpty, text |-> text]
Arrived(status, body) == [arrived |-> TRUE, status |-> status, body |-> body, text |-> <<>>]

\* http::HeaderValue: visible ASCII only
InvalidHeaderChars == {"\n", "\r"}

HeaderValueOk(v) == \A i \in 1..Len(v) : v[i] \notin InvalidHeaderChars

----------------------------------------------------------------------------
(* serde_json values and the derived Deserialize of DiscordUserFormat *)

JStr(s) == [t |-> "str", v |-> s]
JNum(digits) == [t |-> "num", v |-> digits]
JBool(b) == [t |-> "bool", v |-> <<b>>]
JNull == [t |-> "null", v |-> <<>>]

\* a field of type String
de_String(obj, f) ==
    IF f \notin DOMAIN obj THEN Err(<<"missing field ", f>>)
    ELSE IF obj[f].t # "str" THEN Err(<<"invalid type, expected a string: ", f>>)
    ELSE Ok(obj[f].v)

\* a field of type Option<String>
de_Option_String(obj, f) ==
    IF f \notin DOMAIN obj \/ obj[f].t = "null" THEN Ok(None)
    ELSE IF obj[f].t # "str" THEN Err(<<"invalid type, expected a string: ", f>>)
    ELSE Ok(Some(obj[f].v))

\* a field of type i64
de_i64(obj, f) ==
    IF f \notin DOMAIN obj THEN Err(<<"missing field ", f>>)
    ELSE IF obj[f].t # "num" THEN Err(<<"invalid type, expected i64: ", f>>)
    ELSE Ok(obj[f].v)

\* a field of type Option<i64>
de_Option_i64(obj, f) ==
    IF f \notin DOMAIN obj \/ obj[f].t = "null" THEN Ok(None)
    ELSE IF obj[f].t # "num" THEN Err(<<"invalid type, expected i64: ", f>>)
    ELSE Ok(Some(obj[f].v))

\* a field of type bool with #[serde(default)]
de_default_bool(obj, f) ==
    IF f \notin DOMAIN obj THEN Ok(FALSE)
    ELSE IF obj[f].t # "bool" THEN Err(<<"invalid type, expected a boolean: ", f>>)
    ELSE Ok(obj[f].v[1])

\* struct DiscordUserFormat, as deserialized from the fields of a JSON object
DiscordUserFormat(obj) ==
    LET accent_color == de_Option_i64(obj, "accent_color")
        username == de_String(obj, "username")
        discriminator == de_String(obj, "discriminator")
        id == de_String(obj, "id")
        public_flags == de_i64(obj, "public_flags")
        bot == de_default_bool(obj, "bot")
        banner == de_Option_String(obj, "banner")
        avatar == de_Option_String(obj, "avatar")
    IN  IF ~accent_color.ok THEN accent_color
        ELSE IF ~username.ok THEN username
        ELSE IF ~discriminator.ok THEN discriminator
        ELSE IF ~id.ok THEN id
        ELSE IF ~public_flags.ok THEN public_flags
        ELSE IF ~bot.ok THEN bot
        ELSE IF ~banner.ok THEN banner
        ELSE IF ~avatar.ok THEN avatar
        ELSE Ok([accent_color |-> accent_color.val,
                 username |-> username.val,
                 discriminator |-> discriminator.val,
                 id |-> id.val,
                 public_flags |-> public_flags.val,
                 bot |-> bot.val,
                 banner |-> banner.val,
                 avatar |-> avatar.val])

\* hyper::body::to_bytes, String::from_utf8 and serde_json::from_str in turn
read_user_body(body) ==
    IF body.kind = "truncated" THEN Err(<<"error reading a body from connection">>)
    ELSE IF body.kind \in {"bytes"} THEN Err(<<"invalid utf-8 sequence">>)
    ELSE IF body.kind # "object" THEN Err(<<"expected value at line 1 column 1">>)
    ELSE DiscordUserFormat(body.payload)

----------------------------------------------------------------------------
(* The handlers of src/main.rs *)

\* How far a handler gets when it is polled: it returns its
\* anyhow::Result<Response<Body>>, or it is suspended at the await of an
\* outbound call, keeping the locals that live across the await.
NoLocals == [json |-> None, avatar_url |-> None]

Return(result) == [at |-> "return", result |-> result, call |-> None, locals |-> NoLocals]
Await(at, call, locals) == [at |-> at, result |-> Ok(None), call |-> Some(call), locals |-> locals]

\* The request get_user_data builds; Request::builder().body(..)? fails when
\* the authorization header is not a valid header value.
get_user_data_request(token, user_id) ==
    LET authorization == <<"Bot ">> \o token
    IN  IF ~HeaderValueOk(authorization)
        THEN Err(<<"failed to parse header value">>)
        ELSE Ok([method |-> "GET",
                 uri |-> <<"https://discord.com/api/v10/users/">> \o DisplayU64(user_id),
                 headers |-> {<<"accept", <<"application/json">>>>,
                              <<"authorization", authorization>>}])

\* get_user_data from client.request(request).await on: the status of the
\* reply is never read.
get_user_data(reply) ==
    IF ~reply.arrived THEN Err(reply.text)
    ELSE read_user_body(reply.body)

\* default_avatar_url gone wrong: six default avatars instead of five
default_avatar_url_mod6(discrim) ==
    LET d == parse_u16(discrim)
    IN  IF ~d.ok THEN d
        ELSE LET bare == d.val % 6
             IN  Ok(<<"https://cdn.discordapp.com/embed/avatars/">> \o Display(bare) \o <<".png">>)

default_avatar_url(discrim) ==
    LET d == parse_u16(discrim)
    IN  IF ~d.ok THEN d
        ELSE LET bare == d.val % 5
             IN  Ok(<<"https://cdn.discordapp.com/embed/avatars/">> \o Display(bare) \o <<".png">>)

get_avatar_url(json) ==
    IF ~IsSome(json.avatar)
    THEN default_avatar_url(json.discriminator)
    ELSE Ok(<<"https://cdn.discordapp.com/avatars/">> \o json.id \o <<"/">>
            \o Unwrap(json.avatar) \o <<".png">>)

make_err(err, text) ==
    Ok(Response(err, {}, BodyFrom(Display(err) \o <<" ">> \o text)))

\* Result::map(Err) on the result of make_err
map_Err(result) == IF result.ok THEN Ok(Err(result.val)) ELSE result

\* get_discord_data_for up to the await in get_user_data
get_discord_data_for_begin(arc, userid) ==
    LET num_id == parse_u64(userid)
    IN  IF ~num_id.ok
        THEN Return(map_Err(make_err(404, <<"Not found">>)))
        ELSE LET request == get_user_data_request(arc.token, num_id.val)
             IN  IF ~request.ok
                 THEN Return(map_Err(make_err(502, <<"Discord failed to respond">>)))
                 ELSE Await("get_user_data", request.val, NoLocals)

\* get_discord_data_for once get_user_data has its reply
get_discord_data_for(reply) ==
    LET user_data == get_user_data(reply)
    IN  IF ~user_data.ok
        THEN map_Err(make_err(502, <<"Discord failed to respond">>))
        ELSE Ok(Ok(user_data.val))

\* unwrap_resp!(x?) when x makes the handler return: Err(e)? returns Err(e),
\* and the macro turns Ok(Err(response)) into Ok(response).
unwrap_resp_return(x) == IF ~x.ok THEN x ELSE Ok(x.val.val)

\* serde_json::to_string of a string: quotes and backslashes are escaped
json_string(s) ==
    <<"\"">> \o [i \in 1..Len(s) |-> IF s[i] = "\"" THEN "\\\""
                                      ELSE IF s[i] = "\\" THEN "\\\\"
                                      ELSE s[i]] \o <<"\"">>

\* serde_json::to_string of a ResponseUserFormat
ResponseUserFormat(r) ==
    <<"{\"username\":">> \o json_string(r.username)
    \o <<",\"discriminator\":">> \o json_string(r.discriminator)
    \o <<",\"avatar\":">> \o json_string(r.avatar)
    \o <<",\"banner\":">>
    \o (IF IsSome(r.banner) THEN json_string(Unwrap(r.banner)) ELSE <<"null">>)
    \o <<"}">>

\* respond_with_json up to its await
respond_with_json_begin(arc, userid) ==
    LET x == get_discord_data_for_begin(arc, userid)
    IN  IF x.at = "return" THEN Return(unwrap_resp_return(x.result))
        ELSE Await("respond_with_json:get_user_data", Unwrap(x.call), NoLocals)

\* respond_with_json from the reply of the profile lookup on
respond_with_json(reply) ==
    LET x == get_discord_data_for(reply)
    IN  IF ~x.ok \/ ~x.val.ok THEN unwrap_resp_return(x)
        ELSE LET json == x.val.val
                 avatar_url == get_avatar_url(json)
             IN  IF ~avatar_url.ok THEN avatar_url
                 ELSE LET response ==
                              [username |-> json.username,
                               discriminator |-> json.discriminator,
                               avatar |-> avatar_url.val,
                               banner |-> IF IsSome(json.banner)
                                          THEN Some(<<"https://cdn.discordapp.com/banners/">>
                                                    \o json.id \o <<"/">>
                                                    \o Unwrap(json.banner) \o <<".png">>)
                                          ELSE None]
                      IN  Ok(Response(200, {<<"content-type", "application/json">>},
                                      BodyFrom(ResponseUserFormat(response))))

\* respond_with_image up to its first await
respond_with_image_begin(arc, userid) ==
    LET x == get_discord_data_for_begin(arc, userid)
    IN  IF x.at = "return" THEN Return(unwrap_resp_return(x.result))
        ELSE Await("respond_with_image:get_user_data", Unwrap(x.call), NoLocals)

\* respond_with_image gone wrong: a lookup that failed in transport is
\* tried again
respond_with_image_lookup_retry(reply) ==
    LET x == get_discord_data_for(reply)
    IN  IF ~reply.arrived
        THEN Await("respond_with_image:get_user_data",
                   [method |-> "GET", uri |-> <<"https://discord.com/api/v10/users/", "0">>,
                    headers |-> {}],
                   NoLocals)
        ELSE IF ~x.ok \/ ~x.val.ok THEN Return(unwrap_resp_return(x))
        ELSE LET json == x.val.val
                 avatar_url == get_avatar_url(json)
             IN  IF ~avatar_url.ok
                 THEN Return(make_err(502, <<"Discord failed to respond">>))
                 ELSE LET uri == parse_uri(avatar_url.val)
                      IN  IF ~uri.ok THEN Return(uri)
                          ELSE Await("respond_with_image:client.get",
                                     [method |-> "GET", uri |-> uri.val, headers |-> {}],
                                     [json |-> Some(json), avatar_url |-> Some(avatar_url.val)])

\* respond_with_image from the reply of the profile lookup to its second await
respond_with_image_lookup(reply) ==
    LET x == get_discord_data_for(reply)
    IN  IF ~x.ok \/ ~x.val.ok THEN Return(unwrap_resp_return(x))
        ELSE LET json == x.val.val
                 avatar_url == get_avatar_url(json)
             IN  IF ~avatar_url.ok
                 THEN Return(make_err(502, <<"Discord failed to respond">>))
                 ELSE LET uri == parse_uri(avatar_url.val)
                      IN  IF ~uri.ok THEN Return(uri)
                          ELSE Await("respond_with_image:client.get",
                                     [method |-> "GET", uri |-> uri.val, headers |-> {}],
                                     [json |-> Some(json), avatar_url |-> Some(avatar_url.val)])

\* respond_with_image from the reply of the image fetch on
respond_with_image(avatar_url, reply) ==
    IF ~reply.arrived
    THEN make_err(502, <<"Discord failed to supply avatar for url: ">> \o avatar_url)
    ELSE Ok(Response(200, {<<"content-type", "image/png">>}, reply.body))

AvatarPrefix == <<"/", "a", "v", "a", "t", "a", "r", "/">>
PngSuffix == <<".", "p", "n", "g">>
JsonSuffix == <<".", "j", "s", "o", "n">>

\* resp up to the first await of the handler it dispatches to
resp(arc, x) ==
    IF x = <<"/">>
    THEN Return(Ok(Response(302, {<<"Location", "https://git.nea.moe/nea/discordavatarproxy">>},
                            BodyEmpty)))
    ELSE LET request == strip_prefix(x, AvatarPrefix)
         IN  IF ~IsSome(request) THEN Return(make_err(404, <<"Not found">>))
             ELSE IF IsSome(strip_suffix(Unwrap(request), PngSuffix))
             THEN respond_with_image_begin(arc, Unwrap(strip_suffix(Unwrap(request), PngSuffix)))
             ELSE IF IsSome(strip_suffix(Unwrap(request), JsonSuffix))
             THEN respond_with_json_begin(arc, Unwrap(strip_suffix(Unwrap(request), JsonSuffix)))
             ELSE Return(make_err(404, <<"Invalid format">>))

\* wrap_error gone wrong: the error is written into the response
wrap_error_debug(result) ==
    IF ~result.ok
    THEN Response(500, {}, BodyFrom(<<"500 Internal Error: ">> \o result.val))
    ELSE result.val

\* wrap_error: what the service sends for the result of resp
wrap_error(result) ==
    IF ~result.ok
    THEN Response(500, {}, BodyFrom(<<"500 Internal Error">>))
    ELSE result.val

----------------------------------------------------------------------------
(* The inputs the model draws from *)

\* "123"
Id123 == <<"1", "2", "3">>

\* "notanumber"
IdNotANumber == <<"n", "o", "t", "a", "n", "u", "m", "b", "e", "r">>

\* "0"
IdZero == <<"0">>

\* "+5"
IdPlusFive == <<"+", "5">>

\* "-5"
IdMinusFive == <<"-", "5">>

\* "007"
IdLeadingZeros == <<"0", "0", "7">>

\* "12a"
IdAlnum == <<"1", "2", "a">>

\* "18446744073709551615"
IdU64Max == <<"1", "8", "4", "4", "6", "7", "4", "4", "0", "7", "3", "7", "0", "9", "5", "5", "1", "6", "1", "5">>

\* "18446744073709551616"
IdU64MaxPlusOne == <<"1", "8", "4", "4", "6", "7", "4", "4", "0", "7", "3", "7", "0", "9", "5", "5", "1", "6", "1", "6">>

\* "123.json"
IdDoubleSuffix == <<"1", "2", "3", ".", "j", "s", "o", "n">>

IdEmpty == <<>>

UserIds ==
    {Id123, IdNotANumber, IdZero, IdPlusFive, IdMinusFive,
     IdLeadingZeros, IdAlnum, IdU64Max, IdU64MaxPlusOne, IdDoubleSuffix, IdEmpty}

\* "/"
PathRoot == <<"/">>

\* "/favicon.ico"
PathFavicon == <<"/", "f", "a", "v", "i", "c", "o", "n", ".", "i", "c", "o">>

\* "/avatar"
PathAvatarNoSlash == <<"/", "a", "v", "a", "t", "a", "r">>

\* "/avatar/"
PathAvatarBare == <<"/", "a", "v", "a", "t", "a", "r", "/">>

\* "/avatar/123"
PathNoSuffix == <<"/", "a", "v", "a", "t", "a", "r", "/", "1", "2", "3">>

\* "/avatar/123.gif"
PathGif == <<"/", "a", "v", "a", "t", "a", "r", "/", "1", "2", "3", ".", "g", "i", "f">>

\* "/avatar/123.PNG"
PathUpperSuffix == <<"/", "a", "v", "a", "t", "a", "r", "/", "1", "2", "3", ".", "P", "N", "G">>

\* "/Avatar/123.png"
PathUpperPrefix == <<"/", "A", "v", "a", "t", "a", "r", "/", "1", "2", "3", ".", "p", "n", "g">>

\* "/x/avatar/123.png"
PathNested == <<"/", "x", "/", "a", "v", "a", "t", "a", "r", "/", "1", "2", "3", ".", "p", "n", "g">>

PathEmpty == <<>>

\* "/avatar/{id}.png" and "/avatar/{id}.json"
AvatarPath(id, suffix) == AvatarPrefix \o id \o suffix

OtherPaths ==
    {PathRoot, PathEmpty, PathFavicon, PathAvatarNoSlash, PathAvatarBare, PathNoSuffix,
     PathGif, PathUpperSuffix, PathUpperPrefix, PathNested}

Paths == OtherPaths \cup {AvatarPath(id, suffix) : id \in UserIds, suffix \in {PngSuffix, JsonSuffix}}

\* The bearer credential read from the environment: any string, so also
\* one that is no valid header value.
Tokens == {<<"token-A">>, <<"token-B">>, <<"token-C", "\n">>}

\* discriminators as upstream may send them: "0007", "0000", "1234", "9999", "65535", "65536", "+9", "-1", "abc" and ""
Discriminators ==
    {<<"0", "0", "0", "7">>,
     <<"0", "0", "0", "0">>,
     <<"1", "2", "3", "4">>,
     <<"9", "9", "9", "9">>,
     <<"6", "5", "5", "3", "5">>,
     <<"6", "5", "5", "3", "6">>,
     <<"+", "9">>,
     <<"-", "1">>,
     <<"a", "b", "c">>,
     <<>>}

\* avatar and banner hashes; the avatar hash "a b" is no URI text
AvatarHashes == {None, Some(<<"a", "b", "c", "d">>), Some(<<"a", " ", "b">>)}
BannerHashes == {None, Some(<<"e", "f">>)}

\* a user object of the upstream API
UserObject(id, discriminator, avatar, banner) ==
    [id |-> JStr(id),
     username |-> JStr(<<"n", "e", "a">>),
     discriminator |-> JStr(discriminator),
     public_flags |-> JNum(<<"0">>),
     accent_color |-> JNull,
     banner |-> IF IsSome(banner) THEN JStr(Unwrap(banner)) ELSE JNull,
     avatar |-> IF IsSome(avatar) THEN JStr(Unwrap(avatar)) ELSE JNull]

UserObjects ==
    {UserObject(Id123, d, a, b) : d \in Discriminators, a \in AvatarHashes, b \in BannerHashes}

\* objects that are no DiscordUserFormat: the API's error object, a user
\* without public_flags, a user whose id is a number
OtherObjects ==
    {[message |-> JStr(<<"Unknown User">>), code |-> JNum(<<"10013">>)],
     [id |-> JStr(Id123), username |-> JStr(<<"n", "e", "a">>),
      discriminator |-> JStr(<<"0", "0", "0", "7">>)],
     [id |-> JNum(Id123), username |-> JStr(<<"n", "e", "a">>),
      discriminator |-> JStr(<<"0", "0", "0", "7">>), public_flags |-> JNum(<<"0">>)]}

UserBodies ==
    {Body("truncated", <<>>), Body("bytes", <<"\\xff\\xfe">>), Body("text", <<"<html>">>)}
    \cup {Body("object", o) : o \in UserObjects \cup OtherObjects}

Statuses == {200, 404, 500}

UserReplies ==
    {TransportError(<<"connection refused">>)}
    \cup {Arrived(st, b) : st \in Statuses, b \in UserBodies}

AvatarReplies ==
    {TransportError(<<"connection reset">>),
     Arrived(200, Body("bytes", <<"png-1">>)),
     Arrived(200, Body("truncated", <<"png-2">>)),
     Arrived(404, Body("text", <<"not found">>))}

----------------------------------------------------------------------------
(* State: the shared Ctx and one task per request being served *)

NumTasks == 2

IdleTask ==
    [pc |-> "idle", path |-> <<>>, json |-> None, avatar_url |-> None,
     calls |-> <<>>, replies |-> <<>>, responses |-> <<>>]

\* struct Ctx
Ctx(token) == [client |-> "client", token |-> token]

\* A task polled to `outcome`: it sends the response the service wraps up,
\* or it issues the outbound call it awaits.
Poll(t, outcome) ==
    IF outcome.at = "return"
    THEN [t EXCEPT !.pc = "done",
                   !.responses = Append(@, wrap_error(outcome.result))]
    ELSE [t EXCEPT !.pc = outcome.at,
                   !.json = outcome.locals.json,
                   !.avatar_url = outcome.locals.avatar_url,
                   !.calls = Append(@, Unwrap(outcome.call))]

\* serving gone wrong: a request that ends in 500 takes the requests in
\* flight down with it
Serve_abort(tasks, r, t) ==
    [q \in DOMAIN tasks |->
        IF q = r THEN t
        ELSE IF t.pc = "done" /\ t.responses[1].status = 500
        THEN [tasks[q] EXCEPT !.pc = "done"]
        ELSE tasks[q]]

\* service_fn: every request is served by a future of its own, which holds
\* nothing but the Arc<Ctx> and the request.
Serve(tasks, r, t) == [tasks EXCEPT ![r] = t]

Init ==
    /\ ctx \in {Ctx(token) : token \in Tokens}
    /\ task = [r \in {1} |-> IdleTask]

\* a request with path x arrives
Request(r, x) ==
    /\ task[r].pc = "idle"
    /\ task' = Serve(task, r, Poll([task[r] EXCEPT !.path = x], resp(ctx, x)))
    /\ UNCHANGED ctx

\* the profile lookup of an image request comes back
UserDataForImage(r, reply) ==
    /\ task[r].pc = "respond_with_image:get_user_data"
    /\ task' = Serve(task, r, Poll([task[r] EXCEPT !.replies = Append(@, reply)],
                                   respond_with_image_lookup(reply)))
    /\ UNCHANGED ctx

\* the profile lookup of a JSON request comes back
UserDataForJson(r, reply) ==
    /\ task[r].pc = "respond_with_json:get_user_data"
    /\ task' = Serve(task, r, Poll([task[r] EXCEPT !.replies = Append(@, reply)],
                                   Return(respond_with_json(reply))))
    /\ UNCHANGED ctx

\* the image fetch comes back
AvatarData(r, reply) ==
    /\ task[r].pc = "respond_with_image:client.get"
    /\ task' = Serve(task, r, Poll([task[r] EXCEPT !.replies = Append(@, reply)],
                                   Return(respond_with_image(Unwrap(task[r].avatar_url), reply))))
    /\ UNCHANGED ctx

Next ==
    \/ \E r \in DOMAIN task, x \in Paths : Request(r, x)
    \/ \E r \in DOMAIN task, reply \in UserReplies : UserDataForImage(r, reply)
    \/ \E r \in DOMAIN task, reply \in UserReplies : UserDataForJson(r, reply)
    \/ \E r \in DOMAIN task, reply \in AvatarReplies : AvatarData(r, reply)

Spec == Init /\ [][Next]_vars

----------------------------------------------------------------------------
(* Several requests served concurrently, over a smaller set of inputs *)

ConcPaths ==
    {PathRoot, PathGif, AvatarPath(IdNotANumber, PngSuffix),
     AvatarPath(Id123, PngSuffix), AvatarPath(Id123, JsonSuffix)}

ConcUserReplies ==
    {TransportError(<<"connection refused">>),
     Arrived(200, Body("object", UserObject(Id123, <<"0", "0", "0", "7">>,
                                            Some(<<"a", "b", "c", "d">>), None))),
     Arrived(200, Body("object", UserObject(Id123, <<"a", "b", "c">>, None, None)))}

ConcAvatarReplies ==
    {TransportError(<<"connection reset">>), Arrived(200, Body("bytes", <<"png-1">>))}

InitConc ==
    /\ ctx \in {Ctx(token) : token \in Tokens}
    /\ task = [r \in 1..NumTasks |-> IdleTask]

NextConc ==
    \/ \E r \in DOMAIN task, x \in ConcPaths : Request(r, x)
    \/ \E r \in DOMAIN task, reply \in ConcUserReplies : UserDataForImage(r, reply)
    \/ \E r \in DOMAIN task, reply \in ConcUserReplies : UserDataForJson(r, reply)
    \/ \E r \in DOMAIN task, reply \in ConcAvatarReplies : AvatarData(r, reply)

SpecConc == InitConc /\ [][NextConc]_vars

----------------------------------------------------------------------------
(* Vocabulary of the properties *)

Tasks == DOMAIN task

Started(t) == t.pc # "idle"
Done(t) == t.pc = "done"

\* the response a finished task has sent
Sent(t) == t.responses[1]

\* The public error responses, written out as the caller receives them.
PublicError(status, body) ==
    [status |-> status, headers |-> {}, body |-> [kind |-> "text", payload |-> body]]

NotFound404 == PublicError(404, <<"4", "0", "4", " ", "Not found">>)
InvalidFormat404 == PublicError(404, <<"4", "0", "4", " ", "Invalid format">>)
NoResponse502 == PublicError(502, <<"5", "0", "2", " ", "Discord failed to respond">>)
NoAvatar502(url) ==
    PublicError(502, <<"5", "0", "2", " ", "Discord failed to supply avatar for url: ">> \o url)
Internal500 == PublicError(500, <<"500 Internal Error">>)

StartsWith(s, prefix) == Len(s) >= Len(prefix) /\ \A i \in 1..Len(prefix) : s[i] = prefix[i]
EndsWith(s, suffix) ==
    Len(s) >= Len(suffix) /\ \A i \in 1..Len(suffix) : s[Len(s) - Len(suffix) + i] = suffix[i]

IsImagePath(x) == StartsWith(x, AvatarPrefix) /\ EndsWith(SubSeq(x, 9, Len(x)), PngSuffix)
IsJsonPath(x) ==
    StartsWith(x, AvatarPrefix) /\ ~IsImagePath(x) /\ EndsWith(SubSeq(x, 9, Len(x)), JsonSuffix)

\* the text between "/avatar/" and the suffix
IdOfImagePath(x) == SubSeq(x, 9, Len(x) - 4)
IdOfJsonPath(x) == SubSeq(x, 9, Len(x) - 5)
IdOfPath(x) == IF IsImagePath(x) THEN IdOfImagePath(x) ELSE IdOfJsonPath(x)

\* The ids of UserIds that are unsigned 64-bit integers, with their values.
U64Value(id) ==
    CASE id = Id123 -> Some(<<"1", "2", "3">>)
      [] id = IdZero -> Some(<<"0">>)
      [] id = IdPlusFive -> Some(<<"5">>)
      [] id = IdLeadingZeros -> Some(<<"7">>)
      [] id = IdU64Max -> Some(IdU64Max)
      [] OTHER -> None

\* The ids of UserIds that are positive integers: 18446744073709551616 is
\* one, 0 is not.
PositiveIntegerIds == {Id123, IdPlusFive, IdLeadingZeros, IdU64Max, IdU64MaxPlusOne}

\* the profile lookup came back for task t, and with what
LookupReplied(t) == Len(t.replies) >= 1
LookupReply(t) == t.replies[1]
Is2xx(status) == status >= 200 /\ status < 300

\* the record the profile lookup of task t delivered
Delivered(t) ==
    /\ LookupReplied(t)
    /\ LookupReply(t).arrived
    /\ LookupReply(t).body.kind = "object"
    /\ DiscordUserFormat(LookupReply(t).body.payload).ok
Record(t) == DiscordUserFormat(LookupReply(t).body.payload).val

\* The discriminators of Discriminators that are unsigned 16-bit numbers:
\* "0007", "0000", "1234", "9999", "65535" and "+9".
WellFormedDiscriminators ==
    {<<"0", "0", "0", "7">>, <<"0", "0", "0", "0">>, <<"1", "2", "3", "4">>,
     <<"9", "9", "9", "9">>, <<"6", "5", "5", "3", "5">>, <<"+", "9">>}

\* the number a well-formed discriminator denotes
RECURSIVE DecimalValue(_)
DecimalValue(s) ==
    IF Len(s) = 0 THEN 0
    ELSE IF s[Len(s)] = "+" THEN 0
    ELSE DecimalValue(SubSeq(s, 1, Len(s) - 1)) * 10 + DigitVal(s[Len(s)])

\* The reference rule for the avatar URL of a record.
ReferenceAvatarUrl(rec) ==
    IF rec.avatar # None
    THEN <<"https://cdn.discordapp.com/avatars/">> \o rec.id \o <<"/">> \o rec.avatar[1]
         \o <<".png">>
    ELSE <<"https://cdn.discordapp.com/embed/avatars/",
           DigitChars[(DecimalValue(rec.discriminator) % 5) + 1], ".png">>

\* the avatar URL of the record can be resolved
Resolvable(rec) == rec.avatar # None \/ rec.discriminator \in WellFormedDiscriminators

----------------------------------------------------------------------------
(* C1 *)

\* C1: whenever the profile lookup of a request fails by a transport error
\* or comes back with a non-success status, the request ends at once in
\* 502 "Discord failed to respond", with no second outbound call.
C1_UpstreamFailureIs502 ==
    \A r \in Tasks :
        LET t == task[r]
        IN  (LookupReplied(t) /\ (~LookupReply(t).arrived \/ ~Is2xx(LookupReply(t).status)))
            => (Done(t) /\ Sent(t) = NoResponse502 /\ Len(t.calls) = 1)

----------------------------------------------------------------------------
(* C2 *)

\* C2: a record without avatar hash whose discriminator is no unsigned
\* number ends the request in 502 "Discord failed to respond", on the JSON
\* path as on the image path.
C2_BadDiscriminatorIs502 ==
    \A r \in Tasks :
        LET t == task[r]
        IN  (Delivered(t) /\ ~Resolvable(Record(t)))
            => (Done(t) /\ Sent(t) = NoResponse502)

----------------------------------------------------------------------------
(* C3 *)

\* C3 as stated: an id that is no positive integer gets 404 "Not found"
\* and no outbound call is ever made for the request.
C3_NonPositiveIdIs404 ==
    \A r \in Tasks :
        LET t == task[r]
        IN  (Started(t) /\ (IsImagePath(t.path) \/ IsJsonPath(t.path))
             /\ IdOfPath(t.path) \notin PositiveIntegerIds)
            => (Done(t) /\ Sent(t) = NotFound404 /\ t.calls = <<>>)

\* C3 as amended: an id that is no unsigned 64-bit integer (an optional
\* "+", then decimal digits, of value at most 2^64 - 1) gets 404 "Not found"
\* and no outbound call is ever made for the request.
C3_NonU64IdIs404 ==
    \A r \in Tasks :
        LET t == task[r]
        IN  (Started(t) /\ (IsImagePath(t.path) \/ IsJsonPath(t.path))
             /\ U64Value(IdOfPath(t.path)) = None)
            => (Done(t) /\ Sent(t) = NotFound404 /\ t.calls = <<>> /\ t.replies = <<>>)

C3_Witness ==
    \E r \in Tasks :
        /\ task[r].path = AvatarPath(IdNotANumber, PngSuffix)
        /\ Done(task[r])
        /\ Sent(task[r]) = NotFound404

----------------------------------------------------------------------------
(* C4 *)

\* C4: an image request whose avatar URL has been resolved ends either in
\* 200 image/png carrying the fetched body unchanged (the fetch came back)
\* or in 502 naming the URL (the fetch failed), and in no other way.
C4_ImageEnds200Or502 ==
    \A r \in Tasks :
        LET t == task[r]
            url == ReferenceAvatarUrl(Record(t))
        IN  (IsImagePath(t.path) /\ Delivered(t) /\ Resolvable(Record(t)) /\ Done(t))
            => /\ Len(t.replies) = 2
               /\ \/ /\ t.replies[2].arrived
                     /\ Sent(t) = [status |-> 200,
                                   headers |-> {<<"content-type", "image/png">>},
                                   body |-> t.replies[2].body]
                  \/ /\ ~t.replies[2].arrived
                     /\ Sent(t) = NoAvatar502(url)

----------------------------------------------------------------------------
(* C5 *)

\* C5: a path that is neither "/" nor /avatar/<rest> with <rest> ending in
\* .png or .json gets 404, "Not found" without the /avatar/ prefix and
\* "Invalid format" with it, and no outbound call.
C5_UnknownPathIs404 ==
    \A r \in Tasks :
        LET t == task[r]
        IN  (Started(t) /\ t.path # <<"/">> /\ ~IsImagePath(t.path) /\ ~IsJsonPath(t.path))
            => /\ Done(t)
               /\ t.calls = <<>>
               /\ Sent(t) = IF StartsWith(t.path, AvatarPrefix)
                            THEN InvalidFormat404
                            ELSE NotFound404

C5_Witness ==
    \E r \in Tasks :
        /\ task[r].path = PathGif
        /\ Done(task[r])
        /\ Sent(task[r]) = InvalidFormat404

----------------------------------------------------------------------------
(* C6 *)

\* The whole pipeline, run on a context, a path and the replies the
\* outbound calls come back with: the result resp hands to wrap_error, and
\* whether the run used up exactly these replies.
Run(arc, x, replies) ==
    LET first == resp(arc, x)
    IN  IF first.at = "return"
        THEN [complete |-> Len(replies) = 0, result |-> first.result]
        ELSE IF Len(replies) = 0
        THEN [complete |-> FALSE, result |-> first.result]
        ELSE IF first.at = "respond_with_json:get_user_data"
        THEN [complete |-> Len(replies) = 1, result |-> respond_with_json(replies[1])]
        ELSE LET second == respond_with_image_lookup(replies[1])
             IN  IF second.at = "return"
                 THEN [complete |-> Len(replies) = 1, result |-> second.result]
                 ELSE IF Len(replies) = 1
                 THEN [complete |-> FALSE, result |-> second.result]
                 ELSE [complete |-> Len(replies) = 2,
                       result |-> respond_with_image(Unwrap(second.locals.avatar_url),
                                                     replies[2])]

\* the texts of the errors that occur underneath the handlers
ErrorTexts ==
    {"connection refused", "connection reset", "failed to parse header value",
     "cannot parse integer from empty string", "invalid digit found in string",
     "number too large to fit in target type", "invalid uri character",
     "error reading a body from connection", "invalid utf-8 sequence",
     "expected value at line 1 column 1", "missing field ",
     "invalid type, expected a string: ", "invalid type, expected i64: ",
     "invalid type, expected a boolean: "}

Fragments(string) == {string[i] : i \in 1..Len(string)}

\* the response of a finished task is one of the public errors
IsPublicError(t) ==
    \/ Sent(t) \in {NotFound404, InvalidFormat404, NoResponse502, Internal500}
    \/ /\ Delivered(t)
       /\ Resolvable(Record(t))
       /\ Sent(t) = NoAvatar502(ReferenceAvatarUrl(Record(t)))

----------------------------------------------------------------------------
(* C7 *)

\* the body of the JSON response for a record and its avatar URL
ProfileBody(rec, url) ==
    BodyFrom(ResponseUserFormat(
        [username |-> rec.username, discriminator |-> rec.discriminator, avatar |-> url,
         banner |-> IF rec.banner = None THEN None
                    ELSE Some(<<"https://cdn.discordapp.com/banners/">> \o rec.id \o <<"/">>
                              \o rec.banner[1] \o <<".png">>)]))

\* C7: the avatar URL the handlers resolve is the one of the reference
\* rule: the custom URL of id and hash when the hash is present, else the
\* default URL of index (discriminator mod 5), an index in 0..4; it is
\* resolved whenever the rule gives one.
C7_AvatarUrlByRule ==
    \A r \in Tasks :
        LET t == task[r]
            rec == Record(t)
            url == ReferenceAvatarUrl(rec)
        IN  Delivered(t) =>
            /\ (IsImagePath(t.path) /\ Len(t.calls) = 2) =>
                   /\ Resolvable(rec)
                   /\ t.calls[2].uri = url
                   /\ t.avatar_url = Some(url)
                   /\ rec.avatar = None => t.calls[2].uri[2] \in {"0", "1", "2", "3", "4"}
            /\ (IsImagePath(t.path) /\ Resolvable(rec) /\ Fragments(url) \cap InvalidUriChars = {})
                   => Len(t.calls) = 2
            /\ (IsJsonPath(t.path) /\ Done(t) /\ Sent(t).status = 200) =>
                   /\ Resolvable(rec)
                   /\ Sent(t).body = ProfileBody(rec, url)
            /\ (IsJsonPath(t.path) /\ Resolvable(rec)) => Sent(t).status = 200

\* id "123", discriminator "0007", no avatar hash: the JSON response names
\* default avatar 2
C7_Witness ==
    \E r \in Tasks :
        /\ task[r].path = AvatarPath(Id123, JsonSuffix)
        /\ Done(task[r])
        /\ Sent(task[r]).status = 200
        /\ Sent(task[r]).body.payload =
               <<"{\"username\":", "\"", "n", "e", "a", "\"",
                 ",\"discriminator\":", "\"", "0", "0", "0", "7", "\"",
                 ",\"avatar\":", "\"", "https://cdn.discordapp.com/embed/avatars/", "2",
                 ".png", "\"",
                 ",\"banner\":", "null", "}">>

----------------------------------------------------------------------------
(* C8 *)

IsLookup(call) == call.uri[1] = "https://discord.com/api/v10/users/"

Awaiting(t) ==
    t.pc \in {"respond_with_image:get_user_data", "respond_with_json:get_user_data",
              "respond_with_image:client.get"}

\* C8: a request makes at most two outbound calls, one at a time; the
\* first is the profile lookup; the image fetch follows only on an image
\* request, after the lookup delivered a record whose avatar URL resolved;
\* a JSON request makes at most the lookup, a root request no call; and
\* once a call has failed the request makes no further call.
C8_CallsInOrder ==
    \A r \in Tasks :
        LET t == task[r]
        IN  /\ Len(t.calls) <= 2
            /\ Awaiting(t) => Len(t.calls) = Len(t.replies) + 1
            /\ ~Awaiting(t) => Len(t.calls) = Len(t.replies)
            /\ Len(t.calls) >= 1 => IsLookup(t.calls[1])
            /\ Len(t.calls) = 2 =>
                   /\ IsImagePath(t.path)
                   /\ Delivered(t)
                   /\ Resolvable(Record(t))
                   /\ t.calls[2].uri = ReferenceAvatarUrl(Record(t))
                   /\ ~IsLookup(t.calls[2])
            /\ IsJsonPath(t.path) => Len(t.calls) <= 1
            /\ t.path = <<"/">> => t.calls = <<>>
            /\ \A i \in 1..Len(t.replies) :
                   ~t.replies[i].arrived => (Done(t) /\ Len(t.calls) = i)

\* an image request made both calls, the second failed, and it ended there
C8_Witness ==
    \E r \in Tasks :
        /\ Done(task[r])
        /\ Len(task[r].calls) = 2
        /\ Len(task[r].replies) = 2
        /\ ~task[r].replies[2].arrived
        /\ Sent(task[r]).status = 502

----------------------------------------------------------------------------
(* C9 *)

\* every task has sent one response when it is done and none before, and
\* the response is the one its own path and its own replies determine
C9_OwnResponse ==
    \A r \in Tasks :
        LET t == task[r]
            run == Run(ctx, t.path, t.replies)
        IN  /\ Done(t) <=> Len(t.responses) = 1
            /\ Len(t.responses) <= 1
            /\ Done(t) => (run.complete /\ Sent(t) = wrap_error(run.result))

\* a step leaves the context alone, is a step of one task, and leaves a
\* task that is done as it is
C9_OwnStep ==
    /\ ctx' = ctx
    /\ DOMAIN task' = DOMAIN task
    /\ \E r \in Tasks : \A q \in Tasks \ {r} : task'[q] = task[q]
    /\ \A q \in Tasks : Done(task[q]) => task'[q] = task[q]

\* C9: under every interleaving of the requests served concurrently the
\* shared context is never modified, every request ends with exactly one
\* response, and that response depends on the request's own path and the
\* replies to its own calls only, whatever happens to the other requests.
C9_Isolation == [](C9_OwnResponse) /\ [][C9_OwnStep]_vars

\* one request failed with 500 while another, served alongside, got its
\* image
C9_Witness ==
    \E r, q \in Tasks :
        /\ r # q
        /\ Done(task[r]) /\ Sent(task[r]) = Internal500
        /\ Done(task[q]) /\ Sent(task[q]).status = 200
        /\ Len(task[q].replies) = 2

----------------------------------------------------------------------------
(* C10 *)

\* C10: a path is a root, an image, a JSON or an invalid path, by its
\* suffix after /avatar/ alone; the id is the text between the prefix and
\* the suffix; and an id that is an unsigned integer leads to the same
\* profile lookup, of that integer, on the image and on the JSON path.
C10_Routing ==
    /\ \A r \in Tasks :
           LET t == task[r]
               id == IdOfPath(t.path)
           IN  Started(t) =>
               /\ t.path = <<"/">> => (Done(t) /\ Sent(t).status = 302 /\ t.calls = <<>>)
               /\ (t.path # <<"/">> /\ ~IsImagePath(t.path) /\ ~IsJsonPath(t.path))
                      => (Done(t) /\ Sent(t).status = 404 /\ t.calls = <<>>)
               /\ (IsImagePath(t.path) \/ IsJsonPath(t.path)) =>
                      IF U64Value(id) = None
                      THEN Done(t) /\ Sent(t) = NotFound404 /\ t.calls = <<>>
                      ELSE IF HeaderValueOk(ctx.token)
                      THEN /\ Len(t.calls) >= 1
                           /\ t.calls[1].uri =
                                  <<"https://discord.com/api/v10/users/">> \o U64Value(id)[1]
                      ELSE Done(t) /\ Sent(t) = NoResponse502 /\ t.calls = <<>>
               /\ IsImagePath(t.path) =>
                      /\ t.pc # "respond_with_json:get_user_data"
                      /\ (Done(t) /\ Sent(t).status = 200)
                             => Sent(t).headers = {<<"content-type", "image/png">>}
               /\ IsJsonPath(t.path) =>
                      /\ t.pc \notin {"respond_with_image:get_user_data",
                                      "respond_with_image:client.get"}
                      /\ (Done(t) /\ Sent(t).status = 200)
                             => Sent(t).headers = {<<"content-type", "application/json">>}
    /\ \A id \in UserIds :
           resp(ctx, AvatarPath(id, PngSuffix)).call = resp(ctx, AvatarPath(id, JsonSuffix)).call

\* "/avatar/007.json" made the lookup of user 7
C10_Witness ==
    \E r \in Tasks :
        /\ task[r].path = AvatarPath(IdLeadingZeros, JsonSuffix)
        /\ Len(task[r].calls) = 1
        /\ task[r].calls[1].uri = <<"https://discord.com/api/v10/users/", "7">>

====
